---- MODULE Spec2Model ----
(***************************************************************************)
(* dfvsync: keeps the version recorded in tracked files in step with the   *)
(* releases of an upstream repository.  Strings are sequences of           *)
(* one-character strings, so that the regular expressions, the string      *)
(* ordering and the slicing of the program are computed, not assumed.      *)
(*                                                                         *)
(*   Spec           main(), invoked up to MaxRuns times in a row           *)
(*   SpecBaseline   main() up to the baseline filter of line 226           *)
(*   SpecReconcile  the two filters of lines 224-230 over any build list   *)
(*   SpecExtract    get_version over every short label                     *)
(*   SpecFiles      update_files_version over every short file             *)
(***************************************************************************)
EXTENDS Integers, Sequences, FiniteSets, TLC

VARIABLES
    releases_dict,      \* JSON array returned by the releases URL: the tag_name of each entry
    builds_dict,        \* "results" of the build history: [dockertag_name, status] entries
    files,              \* config['files'] with the file on disk: [regex, contents] per file
    pc,                 \* position of main() (or of the function under study)
    releases,           \* main's local `releases`
    builds,             \* main's local `builds`
    dockerfile_version, \* main's local `dockerfile_version`
    idx,                \* position of the `for release in releases` loop
    error,              \* the exception that ended the run, "" when none
    before,             \* the files as update_files_version found them when last called
    trace,              \* writes of the tracked files and git commands that took effect, oldest first
    failed,             \* [run, version] of each publish step in which a git command failed
    exits,              \* how each earlier invocation of main() ended ("" is exit status 0)
    run,                \* number of the current invocation of main()
    tag,                \* argument of get_version when studied alone
    version             \* the version a function studied alone returns or is given

vars == <<releases_dict, builds_dict, files, pc, releases, builds, dockerfile_version,
          idx, error, before, trace, failed, exits, run, tag, version>>

-----------------------------------------------------------------------------
(* Bounds of the model. *)

MaxTagLen == 3          \* longest label given to get_version when studied alone
MaxReleases == 2        \* longest releases array
MaxBuilds == 1          \* longest build history
MaxFiles == 2           \* most tracked files
MaxContentLen == 3      \* longest file content when update_files_version is studied alone
MaxRuns == 2            \* invocations of main() in a row

-----------------------------------------------------------------------------
(* Characters and strings. *)

Digits == {"0", "1", "2", "3", "4", "5", "6", "7", "8", "9"}

IsDigit(c) == c \in Digits

\* \s of the re module, on the characters the model uses
IsSpace(c) == c \in {" ", "\t", "\n", "\r"}

DigitVal(c) ==
    CASE c = "0" -> 0 [] c = "1" -> 1 [] c = "2" -> 2 [] c = "3" -> 3 [] c = "4" -> 4
      [] c = "5" -> 5 [] c = "6" -> 6 [] c = "7" -> 7 [] c = "8" -> 8 [] c = "9" -> 9

\* code point of a character of a version string ('.' is 46, '0' is 48)
Ord(c) == IF c = "." THEN 46 ELSE 48 + DigitVal(c)

\* Python's `a < b` on two version strings: by code point, a proper prefix first
RECURSIVE StrLess(_, _)
StrLess(a, b) ==
    IF b = <<>> THEN FALSE
    ELSE IF a = <<>> THEN TRUE
    ELSE IF Head(a) # Head(b) THEN Ord(Head(a)) < Ord(Head(b))
    ELSE StrLess(Tail(a), Tail(b))

\* all strings over alphabet of length at most n
RECURSIVE Strings(_, _)
Strings(alphabet, n) ==
    IF n = 0 THEN {<<>>}
    ELSE LET shorter == Strings(alphabet, n - 1)
         IN  shorter \cup {Append(s, c) : s \in shorter, c \in alphabet}

\* all sequences over pool of length at most n
RECURSIVE Lists(_, _)
Lists(pool, n) ==
    IF n = 0 THEN {<<>>}
    ELSE LET shorter == Lists(pool, n - 1)
         IN  shorter \cup {Append(s, x) : s \in shorter, x \in pool}

-----------------------------------------------------------------------------
\* get_version: re.search of [\sv] followed by the group \d+(?:\.\d+)* in the tag

\* the value get_version returns when nothing matches
None == <<>>

\* index of the last character of the longest run \d* that starts at i (i - 1 when empty)
RECURSIVE DigitsEnd(_, _)
DigitsEnd(s, i) ==
    IF i <= Len(s) /\ IsDigit(s[i]) THEN DigitsEnd(s, i + 1) ELSE i - 1

\* index of the last character of (?:\.\d+)* matched greedily after position j
RECURSIVE GroupsEnd(_, _)
GroupsEnd(s, j) ==
    IF j + 2 <= Len(s) /\ s[j + 1] = "." /\ IsDigit(s[j + 2])
    THEN GroupsEnd(s, DigitsEnd(s, j + 2))
    ELSE j

\* the text \d+(?:\.\d+)* matches at i, where s[i] is a digit
VersionAt(s, i) == SubSeq(s, i, GroupsEnd(s, DigitsEnd(s, i)))

\* the places where the pattern of line 29 can match
PrefixMatches(s) ==
    {i \in 1..(Len(s) - 1) : (IsSpace(s[i]) \/ s[i] = "v") /\ IsDigit(s[i + 1])}

Min(S) == CHOOSE x \in S : \A y \in S : x <= y

get_version(s) ==
    LET m == PrefixMatches(s)
    IN  IF m = {} THEN None ELSE VersionAt(s, Min(m) + 1)

-----------------------------------------------------------------------------
\* pkg_resources.parse_version on dotted numeric text, and its ordering (PEP 440:
\* the release segment as integers, compared with trailing zeros dropped)

\* the whole of s has the form \d+(?:\.\d+)*
IsDotted(s) ==
    /\ Len(s) > 0
    /\ IsDigit(s[1])
    /\ GroupsEnd(s, DigitsEnd(s, 1)) = Len(s)

\* int() of a run of digits
RECURSIVE ToInt(_)
ToInt(d) ==
    IF d = <<>> THEN 0
    ELSE ToInt(SubSeq(d, 1, Len(d) - 1)) * 10 + DigitVal(d[Len(d)])

\* the integers between the dots of a dotted numeric text
RECURSIVE Components(_)
Components(s) ==
    LET e == DigitsEnd(s, 1)
    IN  <<ToInt(SubSeq(s, 1, e))>>
            \o (IF e >= Len(s) THEN <<>> ELSE Components(SubSeq(s, e + 2, Len(s))))

RECURSIVE StripZeros(_)
StripZeros(t) ==
    IF t # <<>> /\ t[Len(t)] = 0 THEN StripZeros(SubSeq(t, 1, Len(t) - 1)) ELSE t

\* the comparison key of parse_version(s) for dotted numeric s
parse_version(s) == StripZeros(Components(s))

\* Python's `a < b` on two tuples of integers
RECURSIVE TupleLess(_, _)
TupleLess(a, b) ==
    IF b = <<>> THEN FALSE
    ELSE IF a = <<>> THEN TRUE
    ELSE IF Head(a) # Head(b) THEN Head(a) < Head(b)
    ELSE TupleLess(Tail(a), Tail(b))

-----------------------------------------------------------------------------
\* GithubRepo.get_releases

\* the default of get_releases' parameter `top`
top == 5

Max(S) == CHOOSE x \in S : \A y \in S : x >= y

\* sorted(..., key=lambda r: r.version) over records whose versions differ
RECURSIVE SortedByVersion(_)
SortedByVersion(rs) ==
    IF rs = {} THEN <<>>
    ELSE LET first == CHOOSE r \in rs : \A o \in rs \ {r} : StrLess(r.version, o.version)
         IN  <<first>> \o SortedByVersion(rs \ {first})

\* releases_dict[:top]
Slice(list, n) == SubSeq(list, 1, IF Len(list) < n THEN Len(list) ELSE n)

get_releases(list) ==
    LET entries == Slice(list, top)
        found == {get_version(entries[k]) : k \in 1..Len(entries)} \ {None}
        \* releases[version] = Release(...): the last entry of a version stays
        last(v) == Max({k \in 1..Len(entries) : get_version(entries[k]) = v})
    IN  SortedByVersion({[version |-> v, tag |-> entries[last(v)]] : v \in found})

-----------------------------------------------------------------------------
\* DockerhubRepo.get_builds

latest == <<"l", "a", "t", "e", "s", "t">>

IGNORE_TAGS == {latest}

\* the three `continue` statements of the loop
Skipped(entry) ==
    \/ entry.dockertag_name \in IGNORE_TAGS
    \/ get_version(entry.dockertag_name) = None
    \/ entry.status < 0

\* An entry that is not skipped reaches line 185, which reads the names `release_dict`
\* and `build`: neither is bound in get_builds or in the module, so it raises NameError.
get_builds(list) ==
    IF \E k \in 1..Len(list) : ~Skipped(list[k])
    THEN [error |-> "NameError", builds |-> <<>>]
    ELSE [error |-> "", builds |-> <<>>]

-----------------------------------------------------------------------------
\* The tracked files.  config['files'] maps a file name to a regular expression with
\* one group; the model has two such expressions, an "=" followed by the group
\* [0-9.]+ or by the group [0-9.]* (which also captures the empty text).

PLUS == "=([0-9.]+)"
STAR == "=([0-9.]*)"

Regexes == {PLUS, STAR}

IsVersionChar(c) == IsDigit(c) \/ c = "."

\* index of the last character of the longest run [0-9.]* that starts at i
RECURSIVE RunEnd(_, _)
RunEnd(s, i) ==
    IF i <= Len(s) /\ IsVersionChar(s[i]) THEN RunEnd(s, i + 1) ELSE i - 1

\* re.search(regex, contents): whether it matches and, as m.span(1), the 0-based
\* half-open span of the group in the first match
search(regex, contents) ==
    LET starts == {i \in 1..Len(contents) :
                      /\ contents[i] = "="
                      /\ \/ regex = STAR
                         \/ i + 1 <= Len(contents) /\ IsVersionChar(contents[i + 1])}
    IN  IF starts = {} THEN [matched |-> FALSE, s |-> 0, t |-> 0]
        ELSE [matched |-> TRUE, s |-> Min(starts), t |-> RunEnd(contents, Min(starts) + 1)]

\* contents[s:t]
group1(contents, m) == SubSeq(contents, m.s + 1, m.t)

\* files_version from the k-th file on, `v` being the local `version`
RECURSIVE files_version_from(_, _, _)
files_version_from(fs, k, v) ==
    IF k > Len(fs) THEN [error |-> "", version |-> v]
    ELSE LET m == search(fs[k].regex, fs[k].contents)
             file_version == group1(fs[k].contents, m)
         IN  IF ~m.matched THEN [error |-> "FailedToMatch", version |-> v]
             ELSE IF v # None /\ v # file_version
                  THEN [error |-> "TwoDifferentVersion", version |-> v]
                  ELSE files_version_from(fs, k + 1, file_version)

files_version(fs) == files_version_from(fs, 1, None)

\* a slip: contents[:s] + version + contents[s:], the old version left behind
splice_keeps_old(contents, m, v) ==
    SubSeq(contents, 1, m.s) \o v \o SubSeq(contents, m.s + 1, Len(contents))

\* contents[:s] + version + contents[t:]
splice(contents, m, v) ==
    SubSeq(contents, 1, m.s) \o v \o SubSeq(contents, m.t + 1, Len(contents))

\* update_files_version from the k-th file on: the files as it leaves them, and the
\* exception if a file did not match (the files before it are already rewritten)
RECURSIVE update_files_version_from(_, _, _)
update_files_version_from(fs, k, v) ==
    IF k > Len(fs) THEN [error |-> "", files |-> fs, written |-> k - 1]
    ELSE LET m == search(fs[k].regex, fs[k].contents)
         IN  IF ~m.matched THEN [error |-> "FailedToMatch", files |-> fs, written |-> k - 1]
             ELSE update_files_version_from(
                      [fs EXCEPT ![k].contents = splice(fs[k].contents, m, v)], k + 1, v)

update_files_version(fs, v) == update_files_version_from(fs, 1, v)

-----------------------------------------------------------------------------
\* What one invocation can be given.

v1_9 == <<"v", "1", ".", "9">>
v1_10 == <<"v", "1", ".", "1", "0">>
v2_0 == <<"v", "2", ".", "0">>
v2_0_0 == <<"v", "2", ".", "0", ".", "0">>
r_2_0 == <<"r", " ", "2", ".", "0">>
bare1_9 == <<"1", ".", "9">>

\* tag_name of an upstream release
TagPool == {v1_9, v1_10, v2_0, r_2_0, bare1_9}

\* an entry of the build history
BuildPool ==
    {[dockertag_name |-> latest, status |-> 0],
     [dockertag_name |-> bare1_9, status |-> 0],
     [dockertag_name |-> v1_9, status |-> -1],
     [dockertag_name |-> v1_9, status |-> 0]}

\* a tracked file: its expression and its contents
FilePool ==
    {[regex |-> PLUS, contents |-> <<"=", "1", ".", "0">>],
     [regex |-> PLUS, contents |-> <<"=", "1", ".", "9", ".", "0">>],
     [regex |-> STAR, contents |-> <<"=">>],
     [regex |-> PLUS, contents |-> <<"x">>]}

Idle ==
    /\ tag = <<>>
    /\ version = None

Fresh ==
    /\ releases = <<>>
    /\ builds = <<>>
    /\ dockerfile_version = None
    /\ idx = 0
    /\ error = ""

Init ==
    /\ releases_dict \in Lists(TagPool, MaxReleases)
    /\ builds_dict \in Lists(BuildPool, MaxBuilds)
    /\ files \in Lists(FilePool, MaxFiles) \ {<<>>}
    /\ pc = "get_releases"
    /\ Fresh
    /\ before = files
    /\ trace = <<>>
    /\ failed = {}
    /\ exits = <<>>
    /\ run = 1
    /\ Idle

-----------------------------------------------------------------------------
\* main(), one action per statement that can end the run or change its state

\* line 207
GetReleases ==
    /\ pc = "get_releases"
    /\ releases' = get_releases(releases_dict)
    /\ pc' = "get_builds"
    /\ UNCHANGED <<releases_dict, builds_dict, files, builds, dockerfile_version, idx,
                   error, before, trace, failed, exits, run, tag, version>>

\* line 217
GetBuilds ==
    /\ pc = "get_builds"
    /\ LET r == get_builds(builds_dict)
       IN  /\ builds' = r.builds
           /\ error' = r.error
           /\ pc' = IF r.error = "" THEN "files_version" ELSE "aborted"
    /\ UNCHANGED <<releases_dict, builds_dict, files, releases, dockerfile_version, idx,
                   before, trace, failed, exits, run, tag, version>>

\* line 221
FilesVersion ==
    /\ pc = "files_version"
    /\ LET r == files_version(files)
       IN  /\ dockerfile_version' = r.version
           /\ error' = r.error
           /\ pc' = IF r.error = "" THEN "min_version" ELSE "aborted"
    /\ UNCHANGED <<releases_dict, builds_dict, files, releases, builds, idx,
                   before, trace, failed, exits, run, tag, version>>

\* a slip: the two version texts compared as strings, unparsed
Newer_as_text(release_version, min_version) == StrLess(min_version, release_version)

\* release.version > min_version on line 226, both parsed
Newer(release_version, min_version) ==
    TupleLess(parse_version(min_version), parse_version(release_version))

\* lines 225-226.  Text that is no version makes parse_version raise InvalidVersion
\* (setuptools 66 and later) or give a LegacyVersion, which is below every version.
FilterBaseline ==
    /\ pc = "min_version"
    /\ IF IsDotted(dockerfile_version)
       THEN /\ releases' = SelectSeq(releases, LAMBDA r : Newer(r.version, dockerfile_version))
            /\ pc' = "build_versions"
            /\ error' = error
       ELSE \E legacy \in BOOLEAN :
               /\ releases' = releases
               /\ pc' = IF legacy THEN "build_versions" ELSE "aborted"
               /\ error' = IF legacy THEN error ELSE "InvalidVersion"
    /\ UNCHANGED <<releases_dict, builds_dict, files, builds, dockerfile_version, idx,
                   before, trace, failed, exits, run, tag, version>>

\* line 229
build_versions(bs) == {bs[k].version : k \in 1..Len(bs)}

\* lines 229-234
FilterBuilds ==
    /\ pc = "build_versions"
    /\ releases' = SelectSeq(releases, LAMBDA r : r.version \notin build_versions(builds))
    /\ idx' = 1
    /\ pc' = IF releases' = <<>> THEN "done" ELSE "update_files_version"
    /\ UNCHANGED <<releases_dict, builds_dict, files, builds, dockerfile_version,
                   error, before, trace, failed, exits, run, tag, version>>

Event(op, v) == [run |-> run, op |-> op, version |-> v]

\* line 238
UpdateFiles ==
    /\ pc = "update_files_version"
    /\ LET v == releases[idx].version
           r == update_files_version(files, v)
       IN  /\ before' = files
           /\ files' = r.files
           /\ trace' = IF r.written > 0 THEN Append(trace, Event("write", v)) ELSE trace
           /\ error' = r.error
           /\ pc' = IF r.error = "" THEN "create_version_commit" ELSE "aborted"
    /\ UNCHANGED <<releases_dict, builds_dict, releases, builds, dockerfile_version, idx,
                   failed, exits, run, tag, version>>

\* lines 239-241: create_version_commit runs git commit, git tag and git push through
\* os.system, each of which can fail, and looks at no exit status
CreateVersionCommit ==
    /\ pc = "create_version_commit"
    /\ \E commit_ok, tag_ok, push_ok \in BOOLEAN :
          LET v == releases[idx].version
          IN  /\ trace' = trace
                     \o (IF commit_ok THEN <<Event("commit", v)>> ELSE <<>>)
                     \o (IF tag_ok THEN <<Event("tag", v)>> ELSE <<>>)
                     \o (IF push_ok THEN <<Event("push", v)>> ELSE <<>>)
              /\ failed' = IF commit_ok /\ tag_ok /\ push_ok
                           THEN failed ELSE failed \cup {[run |-> run, version |-> v]}
    /\ idx' = idx + 1
    /\ pc' = IF idx = Len(releases) THEN "done" ELSE "update_files_version"
    /\ UNCHANGED <<releases_dict, builds_dict, files, releases, builds, dockerfile_version,
                   error, before, exits, run, tag, version>>

\* the job is invoked again, on the files and the git history the last run left and on
\* the same answers of the two services
Invoke ==
    /\ pc \in {"done", "aborted"}
    /\ run < MaxRuns
    /\ run' = run + 1
    /\ exits' = Append(exits, error)
    /\ pc' = "get_releases"
    /\ releases' = <<>>
    /\ builds' = <<>>
    /\ dockerfile_version' = None
    /\ idx' = 0
    /\ error' = ""
    /\ UNCHANGED <<releases_dict, builds_dict, files, before, trace, failed, tag, version>>

Next ==
    \/ GetReleases
    \/ GetBuilds
    \/ FilesVersion
    \/ FilterBaseline
    \/ FilterBuilds
    \/ UpdateFiles
    \/ CreateVersionCommit
    \/ Invoke

Spec == Init /\ [][Next]_vars

-----------------------------------------------------------------------------
\* get_version on its own, over every short label

TagAlphabet == {"v", " ", "1", "2", ".", "a"}

NoRun ==
    /\ releases_dict = <<>>
    /\ builds_dict = <<>>
    /\ Fresh
    /\ trace = <<>>
    /\ failed = {}
    /\ exits = <<>>
    /\ run = 1

InitExtract ==
    /\ tag \in Strings(TagAlphabet, MaxTagLen)
    /\ version = None
    /\ pc = "get_version"
    /\ files = <<>>
    /\ before = <<>>
    /\ NoRun

\* lines 28-34
CallGetVersion ==
    /\ pc = "get_version"
    /\ version' = get_version(tag)
    /\ pc' = "returned"
    /\ UNCHANGED <<releases_dict, builds_dict, files, releases, builds, dockerfile_version,
                   idx, error, before, trace, failed, exits, run, tag>>

NextExtract == CallGetVersion

SpecExtract == InitExtract /\ [][NextExtract]_vars

Letters ==
    {"a", "b", "c", "d", "e", "f", "g", "h", "i", "j", "k", "l", "m",
     "n", "o", "p", "q", "r", "s", "t", "u", "v", "w", "x", "y", "z"}

\* \w of the re module, on the characters the model uses
IsWord(c) == IsDigit(c) \/ c \in Letters \/ c = "_"

\* the digits at which a run "starts at a word boundary or directly after a 'v'"
ClaimStarts(s) ==
    {d \in 1..Len(s) : IsDigit(s[d]) /\ (d = 1 \/ ~IsWord(s[d - 1]) \/ s[d - 1] = "v")}

\* the version the claim gives a label: the run of dot-separated integer groups at the
\* first such digit, None (NotFound) when there is none
ClaimExtract(s) ==
    IF ClaimStarts(s) = {} THEN None ELSE VersionAt(s, Min(ClaimStarts(s)))

\* C6: get_version returns, for every label, the first run of dot-separated integer
\* groups that starts at a word boundary or directly after a 'v', and None only when the
\* label holds no such run
C6_ExtractsFirstRun ==
    pc = "returned" => version = ClaimExtract(tag)

-----------------------------------------------------------------------------
\* update_files_version on its own: one file of any short contents among files of
\* the pool, and a version to write

ContentAlphabet == {"=", "1", ".", "a"}

AnyFile == [regex : Regexes, contents : Strings(ContentAlphabet, MaxContentLen)]

NewVersions == {<<"2", ".", "0">>, <<"7">>}

\* the lists that hold f at some place among the files of rest
Insertions(f, rest) ==
    {SubSeq(rest, 1, k) \o <<f>> \o SubSeq(rest, k + 1, Len(rest)) : k \in 0..Len(rest)}

InitFiles ==
    /\ files \in UNION {Insertions(f, rest) : f \in AnyFile, rest \in Lists(FilePool, MaxFiles - 1)}
    /\ before = files
    /\ version \in NewVersions
    /\ tag = <<>>
    /\ pc = "update_files_version"
    /\ NoRun

\* lines 67-79
CallUpdateFilesVersion ==
    /\ pc = "update_files_version"
    /\ LET r == update_files_version(files, version)
       IN  /\ before' = files
           /\ files' = r.files
           /\ error' = r.error
    /\ pc' = "returned"
    /\ UNCHANGED <<releases_dict, builds_dict, releases, builds, dockerfile_version,
                   idx, trace, failed, exits, run, tag, version>>

NextFiles == CallUpdateFilesVersion

SpecFiles == InitFiles /\ [][NextFiles]_vars

\* the pattern of file f matches somewhere in its contents
Matches(f) ==
    \E p \in 1..Len(f.contents) :
        /\ f.contents[p] = "="
        /\ f.regex = PLUS => p < Len(f.contents) /\ IsVersionChar(f.contents[p + 1])

\* new is old with the characters p+1..q, the group of the first match, replaced by v,
\* and every other character where it was
Replaced(regex, old, new, v) ==
    \E p \in 1..Len(old) : \E q \in p..Len(old) :
        /\ old[p] = "="
        /\ regex = PLUS => q > p
        /\ \A j \in (p + 1)..q : IsVersionChar(old[j])
        /\ q < Len(old) => ~IsVersionChar(old[q + 1])
        /\ \A e \in 1..(p - 1) :
              ~(old[e] = "=" /\ (regex = STAR \/ IsVersionChar(old[e + 1])))
        /\ Len(new) = Len(old) - (q - p) + Len(v)
        /\ \A j \in 1..p : new[j] = old[j]
        /\ \A j \in 1..Len(v) : new[p + j] = v[j]
        /\ \A j \in (q + 1)..Len(old) : new[j - (q - p) + Len(v)] = old[j]

-----------------------------------------------------------------------------
\* Componentwise numeric comparison of two dotted versions, the shorter padded with
\* zeros on the right

\* the k-th integer of s, 0 beyond its last
Component(s, k) == IF k <= Len(Components(s)) THEN Components(s)[k] ELSE 0

Width(a, b) ==
    IF Len(Components(a)) > Len(Components(b)) THEN Len(Components(a)) ELSE Len(Components(b))

NumGreater(a, b) ==
    \E k \in 1..Width(a, b) :
        /\ Component(a, k) > Component(b, k)
        /\ \A j \in 1..(k - 1) : Component(a, j) = Component(b, j)

NumEqual(a, b) == \A k \in 1..Width(a, b) : Component(a, k) = Component(b, k)

Range(list) == {list[k] : k \in 1..Len(list)}

\* the positions of main() after both filters
Reconciled == {"update_files_version", "create_version_commit", "done"}

\* main() up to line 226, where the baseline filter has run
NextBaseline ==
    \/ GetReleases
    \/ GetBuilds
    \/ FilesVersion
    \/ FilterBaseline

SpecBaseline == Init /\ [][NextBaseline]_vars

\* C1: the releases the run acts on are in ascending componentwise numeric order
C1_AscendingNumericOrder ==
    pc \in Reconciled =>
        \A k \in 1..(Len(releases) - 1) :
            NumGreater(releases[k + 1].version, releases[k].version)

\* C2: the baseline filter keeps exactly the releases of get_releases whose version is
\* strictly greater than the version of the tracked files, compared number by number
C2_KeepsExactlyTheNewer ==
    pc = "build_versions" /\ IsDotted(dockerfile_version) =>
        /\ Range(releases) \subseteq Range(get_releases(releases_dict))
        /\ \A r \in Range(get_releases(releases_dict)) :
              r \in Range(releases) <=> NumGreater(r.version, dockerfile_version)

\* baseline 1.9.0: release 1.9, equal to it after padding, is dropped and 1.10 is kept
C2_Witness ==
    /\ pc = "build_versions"
    /\ dockerfile_version = <<"1", ".", "9", ".", "0">>
    /\ \E r \in Range(get_releases(releases_dict)) : r.version = <<"1", ".", "9">>
    /\ \A r \in Range(releases) : r.version = <<"1", ".", "1", "0">>
    /\ releases # <<>>

\* the build records get_builds is written to return for a history
ExpectedBuildVersions ==
    {get_version(builds_dict[k].dockertag_name) :
        k \in {j \in 1..Len(builds_dict) :
                  /\ builds_dict[j].dockertag_name # latest
                  /\ builds_dict[j].status >= 0
                  /\ get_version(builds_dict[j].dockertag_name) # None}}

\* C4: get_builds does not end the run, and hands main a record for exactly the
\* versions of the entries that are not 'latest', not failed and carry a version
C4_BuildsReachTheReconciler ==
    pc \notin {"get_releases", "get_builds"} =>
        /\ error # "NameError"
        /\ build_versions(builds) = ExpectedBuildVersions

\* C5: once a git command of a publish step has failed in a run, that run writes no
\* tracked file and runs no git command for a later release
C5_PublishFailureAborts ==
    [][(\E f \in failed : f.run = run) => trace' = trace]_vars

\* the text the files report: the group of the first match of each
Reported(f) == group1(f.contents, search(f.regex, f.contents))

\* C7: files_version returns only when all tracked files report the same version; two
\* files that differ end the run there
C7_DisagreementIsFatal ==
    pc = "min_version" =>
        \A j, k \in 1..Len(files) : Reported(files[j]) = Reported(files[k])

\* the effects of invocation n, oldest first
RunTrace(n) == SelectSeq(trace, LAMBDA e : e.run = n)

\* no git command failed in invocation n
NoFailure(n) == \A f \in failed : f.run # n

\* write(v), publish(v) for each release of the list in turn
RECURSIVE Schedule(_, _)
Schedule(list, n) ==
    IF list = <<>> THEN <<>>
    ELSE LET v == Head(list).version
         IN  << [run |-> n, op |-> "write", version |-> v],
                [run |-> n, op |-> "commit", version |-> v],
                [run |-> n, op |-> "tag", version |-> v],
                [run |-> n, op |-> "push", version |-> v] >> \o Schedule(Tail(list), n)

\* C8: a run in which nothing fails writes and publishes each outstanding release once,
\* write then commit, tag and push, in strictly ascending numeric order of the versions
C8_OneWriteOnePublishInOrder ==
    pc = "done" /\ error = "" /\ NoFailure(run) =>
        /\ RunTrace(run) = Schedule(releases, run)
        /\ \A j, k \in 1..Len(releases) :
              j < k => NumGreater(releases[k].version, releases[j].version)

\* C10: after a run without failure the tracked files hold a version that no release the
\* run acted on exceeds, and a second run after it neither writes nor publishes
C10_SecondRunDoesNothing ==
    /\ pc = "done" /\ error = "" /\ NoFailure(run) =>
          \A r \in Range(releases) : \A f \in Range(files) :
              ~NumGreater(r.version, Reported(f))
    /\ run = 2 /\ exits[1] = "" /\ NoFailure(1) => RunTrace(2) = <<>>

-----------------------------------------------------------------------------
\* Lines 224-230 on their own: the two filters of main() over the releases of
\* get_releases, a list of build records as get_builds is written to return it (one
\* record per version, sorted) and the version of the tracked files

ReconcileTags == {v1_9, v2_0, v2_0_0}

DockerBuilds ==
    {[version |-> <<"1", ".", "9">>, tag |-> v1_9, status |-> 0],
     [version |-> <<"2", ".", "0">>, tag |-> v2_0, status |-> 0],
     [version |-> <<"2", ".", "0", ".", "0">>, tag |-> v2_0_0, status |-> 0]}

Baselines == {<<"1", ".", "0">>, <<"1", ".", "9", ".", "0">>}

InitReconcile ==
    /\ releases_dict \in Lists(ReconcileTags, MaxReleases)
    /\ releases = get_releases(releases_dict)
    /\ builds \in {SortedByVersion(bs) : bs \in {x \in SUBSET DockerBuilds : Cardinality(x) <= MaxBuilds}}
    /\ dockerfile_version \in Baselines
    /\ pc = "min_version"
    /\ builds_dict = <<>>
    /\ files = <<>>
    /\ before = <<>>
    /\ idx = 0
    /\ error = ""
    /\ trace = <<>>
    /\ failed = {}
    /\ exits = <<>>
    /\ run = 1
    /\ Idle

NextReconcile ==
    \/ FilterBaseline
    \/ FilterBuilds

SpecReconcile == InitReconcile /\ [][NextReconcile]_vars

====
